---- MODULE Spec2Model ----
(***************************************************************************)
(* Model of news_agent.py: the fetch -> filter -> dedupe -> notify -> save *)
(* pipeline of main(), and the pure helpers it uses.                       *)
(*                                                                         *)
(* Representation                                                          *)
(*  - a Python str is a sequence of one-character strings, <<"a","b">>;    *)
(*    Python None in a str-valued field is the one-element sequence None;  *)
(*  - sha256(..).hexdigest() is modelled by the string it digests: the     *)
(*    digest is treated as injective, so two articles share a hash exactly *)
(*    when title + link give the same string;                              *)
(*  - time is counted in hours since an epoch; a date string is a token    *)
(*    that names the strptime format it is written in and its fields;      *)
(*  - the seen-articles JSON object is the set of its keys: the program    *)
(*    only ever stores the value True (line 194);                          *)
(*  - a key a provider item lacks reads as None (dict.get); a snippet is   *)
(*    a str or lacking, never an explicit JSON null; the "source" field,   *)
(*    which only compose_email prints, is left out;                        *)
(*  - an exception that main() does not catch ends the run: pc "crashed".  *)
(*  Responses hold fewer items than the cap [:5], so the cap never cuts.   *)
(***************************************************************************)
EXTENDS Integers, Sequences, FiniteSets, TLC

VARIABLES
    pc,             \* position of main(): start, primary, fallback, process,
                    \* notify, save, done, exit (early return), crashed
    orgsFile,       \* orgs.txt: whether it exists and its lines
    filtersFile,    \* filters.json: whether it exists and its mapping
    env,            \* os.environ restricted to the six names main() reads
    seenFile,       \* seen_articles.json (set of keys)
    now,            \* datetime.now(timezone.utc), in hours
    orgs,           \* main.orgs
    filters,        \* main.filters
    stored_hashes,  \* main.stored_hashes
    loaded,         \* value load_stored_hashes() returned in this run
    new_news,       \* main.new_news (dict org -> list of articles)
    idx,            \* position of the for-loop over orgs (1-based)
    articles,       \* main.articles, within one iteration of the loop
    dropped,        \* history: a repeated unseen hash was discarded
    calls,          \* history of the fetch calls of this run; a primary
                    \* call is recorded with whether it returned nothing
    sends,          \* outcome of each send_email call of this run
    saves,          \* number of save_stored_hashes calls of this run
    fetchLog,       \* what each fetch call of the first run returned
    prev,           \* how the previous run ended (two-run specification)
    arg,            \* input of a helper applied on its own
    res             \* result of a helper applied on its own

vars == <<pc, orgsFile, filtersFile, env, seenFile, now, orgs, filters,
          stored_hashes, loaded, new_news, idx, articles, dropped, calls,
          sends, saves, fetchLog, prev, arg, res>>

mainVars == <<orgsFile, filtersFile, env, seenFile, orgs, filters,
              stored_hashes, loaded, new_news, idx, articles, dropped,
              calls, sends, saves, fetchLog, prev>>

\* ------------------------------------------------------------------ bounds
MaxLines == 2       \* lines in orgs.txt
MaxFetch == 2       \* items in one provider response (single-run model)
MaxFetch2 == 1      \* items in one provider response (two-run model)
MaxKw == 2          \* keywords in one list (keyword-filter model)
MaxDay == 2         \* days covered by the clock and by date strings
MaxArts == 2        \* articles in one list (keyword-filter model)

\* -------------------------------------------------------------- constants
ResultCap == 5              \* [:5]
WindowHours == 24           \* timedelta(hours=24)
HoursPerDay == 24

\* ------------------------------------------------------------------ values
None == <<"None">>
NoneKw == << <<"None">> >>      \* None where a list of str is expected

Min(a, b) == IF a <= b THEN a ELSE b
Take(s, n) == SubSeq(s, 1, Min(n, Len(s)))
SeqsUpTo(S, n) == UNION {[1..k -> S] : k \in 0..n}

\* ------------------------------------------------------------ str helpers
LowerChar(c) ==
    CASE c = "A" -> "a"
      [] c = "B" -> "b"
      [] OTHER -> c

lower(s) == [k \in 1..Len(s) |-> LowerChar(s[k])]

\* Python's  p in s  for two str
IsSubstring(p, s) ==
    \E k \in 0..(Len(s) - Len(p)) : SubSeq(s, k + 1, k + Len(p)) = p

\* Python's  x or ''
OrEmpty(x) == IF x = None THEN <<>> ELSE x

\* ----------------------------------------------------------------- hashing
news_hash(item) == OrEmpty(item.title) \o OrEmpty(item.link)

\* ----------------------------------------------------------- recency filter
Formats == <<"iso", "us", "abbr", "full">>

\* datetime.strptime(s, fmt).replace(tzinfo=utc): [ok |-> FALSE] is ValueError
strptime(s, fmt) ==
    IF Len(s) = 0 THEN [ok |-> FALSE, t |-> 0]
    ELSE CASE fmt = "iso" /\ s[1] = "iso" ->
                [ok |-> TRUE, t |-> s[2] * HoursPerDay + s[3]]
           [] fmt = "us" /\ s[1] = "us" ->
                [ok |-> TRUE,
                 t |-> s[2] * HoursPerDay + (s[3] % 12)
                       + (IF s[4] = "PM" THEN 12 ELSE 0)]
           [] fmt = "abbr" /\ s[1] \in {"abbr", "may"} ->
                [ok |-> TRUE, t |-> s[2] * HoursPerDay]
           [] fmt = "full" /\ s[1] \in {"full", "may"} ->
                [ok |-> TRUE, t |-> s[2] * HoursPerDay]
           [] OTHER -> [ok |-> FALSE, t |-> 0]

WithinWindow_strict(clock, pub_date) == clock - pub_date < WindowHours

WithinWindow(clock, pub_date) == clock - pub_date <= WindowHours

RECURSIVE TryFormats(_, _, _)
TryFormats(s, k, clock) ==
    IF k > Len(Formats) THEN FALSE
    ELSE LET p == strptime(s, Formats[k])
         IN IF p.ok THEN WithinWindow(clock, p.t)
            ELSE TryFormats(s, k + 1, clock)

article_within_last_24_hours(pub_date_str, clock) ==
    TryFormats(pub_date_str, 1, clock)

\* Python's  not i.get("date")
NoDate(d) == d = None \/ d = <<>>

\* ----------------------------------------------------------- keyword filter
NoKeywords(keywords) == keywords = NoneKw \/ keywords = <<>>

Haystack_nolower(a) == a.title \o <<" ">> \o a.snippet

Haystack(a) == lower(a.title \o <<" ">> \o a.snippet)

\* [raised |-> TRUE] is the TypeError of  None + ' '
filter_articles_by_keywords(arts, keywords) ==
    IF NoKeywords(keywords) THEN [raised |-> FALSE, value |-> arts]
    ELSE IF \E k \in 1..Len(arts) : arts[k].title = None
         THEN [raised |-> TRUE, value |-> <<>>]
         ELSE LET keywords_lower == [k \in 1..Len(keywords) |-> lower(keywords[k])]
                  Match(a) == \E k \in 1..Len(keywords_lower) :
                                 IsSubstring(keywords_lower[k], Haystack(a))
              IN [raised |-> FALSE, value |-> SelectSeq(arts, Match)]

\* ----------------------------------------------------------------- fetchers
\* a provider response: kind "ok" (status 200 and a JSON body), "status"
\* (any other status code) or "exc" (requests.get or resp.json() raised)
SerpArticle(i) ==
    [title |-> i.title, link |-> i.link,
     snippet |-> IF i.snippet = None THEN <<>> ELSE i.snippet,
     pub_date |-> i.date]

KeepRecent(i, clock) ==
    NoDate(i.date) \/ article_within_last_24_hours(i.date, clock)

fetch_news_serpapi(resp, clock) ==
    IF resp.kind # "ok" THEN <<>>
    ELSE LET Keep(i) == KeepRecent(i, clock)
             kept == SelectSeq(resp.data, Keep)
         IN Take([k \in 1..Len(kept) |-> SerpArticle(kept[k])], ResultCap)

\* datetime.utcnow().strftime("%Y-%m-%dT%H:%M:%SZ")
strftime_iso(clock) == <<"iso", clock \div HoursPerDay, clock % HoursPerDay>>

GoogleArticle(i, clock) ==
    [title |-> i.title, link |-> i.link,
     snippet |-> IF i.snippet = None THEN <<>> ELSE i.snippet,
     pub_date |-> strftime_iso(clock)]

fetch_news_googleapi(resp, clock) ==
    IF resp.kind # "ok" THEN <<>>
    ELSE Take([k \in 1..Len(resp.data) |-> GoogleArticle(resp.data[k], clock)],
              ResultCap)

\* ------------------------------------------------------------------- files
\* a file is [exists |-> os.path.exists(..), content |-> what it holds]
IsSpace(c) == c \in {" ", "\n"}

RECURSIVE lstrip(_)
lstrip(s) == IF s # <<>> /\ IsSpace(Head(s)) THEN lstrip(Tail(s)) ELSE s

RECURSIVE rstrip(_)
rstrip(s) ==
    IF s # <<>> /\ IsSpace(s[Len(s)]) THEN rstrip(SubSeq(s, 1, Len(s) - 1))
    ELSE s

strip(s) == rstrip(lstrip(s))

load_organizations(file) ==
    IF ~file.exists THEN <<>>
    ELSE LET NonBlank(line) == strip(line) # <<>>
             kept == SelectSeq(file.content, NonBlank)
         IN [k \in 1..Len(kept) |-> strip(kept[k])]

EmptyDict == [o \in {} |-> <<>>]

load_filters(file) == IF ~file.exists THEN EmptyDict ELSE file.content

load_stored_hashes(file) == IF file.exists THEN file.content ELSE {}

save_stored_hashes_stale(data) == [exists |-> TRUE, content |-> loaded]

save_stored_hashes(data) == [exists |-> TRUE, content |-> data]

\* dict.get(key, None) on the filters mapping
filters_get(d, key) == IF key \in DOMAIN d THEN d[key] ELSE NoneKw

\* d[key] = value on a dict
dict_set(d, key, value) ==
    [o \in DOMAIN d \cup {key} |-> IF o = key THEN value ELSE d[o]]

\* --------------------------------------------------------------- main()
EnvNames == {"EMAIL_TO", "EMAIL_FROM", "EMAIL_PASS", "SERPAPI_KEY",
             "GOOGLE_API_KEY", "GOOGLE_CSE_ID"}

all_env_set_nocse(e) ==
    \A n \in EnvNames \ {"GOOGLE_CSE_ID"} : e[n] # None /\ e[n] # <<>>

\* all([to_email, from_email, from_pass, serpapi_key, google_key, google_cse_id])
all_env_set(e) == \A n \in EnvNames : e[n] # None /\ e[n] # <<>>

NeedsFallback_few(arts) == Len(arts) < 2

\* if not articles:
NeedsFallback(arts) == arts = <<>>

\* stored_hashes.get(h)
IsSeen(stored, h) == h \in stored

MarkSeen_skip(stored, h) == stored

MarkSeen_reset(stored, h) == {h}

\* stored_hashes[h] = True
MarkSeen(stored, h) == stored \cup {h}

\* the loop  for art in articles  of main()
RECURSIVE Dedupe(_, _, _)
Dedupe(arts, stored, fresh) ==
    IF arts = <<>> THEN [fresh |-> fresh, stored |-> stored]
    ELSE LET art == Head(arts)
             h == news_hash(art)
         IN IF ~IsSeen(stored, h)
            THEN Dedupe(Tail(arts), MarkSeen(stored, h), Append(fresh, art))
            ELSE Dedupe(Tail(arts), stored, fresh)

\* if new_news:
HasNews(news) == DOMAIN news # {}

Start ==
    /\ pc = "start"
    /\ orgs' = load_organizations(orgsFile)
    /\ filters' = load_filters(filtersFile)
    /\ IF orgs' = <<>> \/ ~all_env_set(env)
       THEN /\ pc' = "exit"
            /\ UNCHANGED <<stored_hashes, loaded, new_news, idx>>
       ELSE /\ stored_hashes' = load_stored_hashes(seenFile)
            /\ loaded' = stored_hashes'
            /\ new_news' = EmptyDict
            /\ idx' = 1
            /\ pc' = "primary"
    /\ UNCHANGED <<orgsFile, filtersFile, env, seenFile, now, articles,
                   dropped, calls, sends, saves, fetchLog, prev, arg, res>>

\* articles = fetch_news_serpapi(org, serpapi_key, keywords)
PrimaryReturns(result) ==
    /\ pc = "primary"
    /\ articles' = result
    /\ calls' = Append(calls, [org |-> idx, kind |-> "primary",
                               empty |-> result = <<>>])
    /\ pc' = IF NeedsFallback(result) THEN "fallback" ELSE "process"
    /\ UNCHANGED <<orgsFile, filtersFile, env, seenFile, now, orgs, filters,
                   stored_hashes, loaded, new_news, idx, dropped, sends,
                   saves, prev, arg, res>>

\* articles = fetch_news_googleapi(org, google_key, google_cse_id, keywords)
FallbackReturns(result) ==
    /\ pc = "fallback"
    /\ articles' = result
    /\ calls' = Append(calls, [org |-> idx, kind |-> "fallback"])
    /\ pc' = "process"
    /\ UNCHANGED <<orgsFile, filtersFile, env, seenFile, now, orgs, filters,
                   stored_hashes, loaded, new_news, idx, dropped, sends,
                   saves, prev, arg, res>>

\* the dedupe loop left out an article whose hash the loaded seen-set did
\* not hold (history only)
DropsRepeat(arts, fresh) ==
    Cardinality({k \in 1..Len(arts) : news_hash(arts[k]) \notin loaded})
        > Len(fresh)

\* keyword filter, dedupe loop and  new_news[org] = fresh_articles; the
\* list  articles  is not read again once the iteration ends
ProcessOrg ==
    /\ pc = "process"
    /\ LET org == orgs[idx]
           keywords == filters_get(filters, org)
           filtered == IF ~NoKeywords(keywords)
                       THEN filter_articles_by_keywords(articles, keywords)
                       ELSE [raised |-> FALSE, value |-> articles]
       IN IF filtered.raised
          THEN /\ pc' = "crashed"
               /\ UNCHANGED <<articles, stored_hashes, new_news, idx, dropped>>
          ELSE LET d == Dedupe(filtered.value, stored_hashes, <<>>)
               IN /\ articles' = <<>>
                  /\ dropped' = (dropped \/ DropsRepeat(filtered.value, d.fresh))
                  /\ stored_hashes' = d.stored
                  /\ new_news' = IF d.fresh # <<>>
                                 THEN dict_set(new_news, org, d.fresh)
                                 ELSE new_news
                  /\ idx' = idx + 1
                  /\ pc' = IF idx + 1 > Len(orgs) THEN "notify" ELSE "primary"
    /\ UNCHANGED <<orgsFile, filtersFile, env, seenFile, now, orgs, filters,
                   loaded, calls, sends, saves, fetchLog, prev, arg, res>>

\* compose_email + send_email; an SMTP exception is caught inside send_email
SendEmail ==
    /\ pc = "notify"
    /\ HasNews(new_news)
    /\ \E outcome \in {"sent", "smtp_error"} : sends' = Append(sends, outcome)
    /\ pc' = "save"
    /\ UNCHANGED <<orgsFile, filtersFile, env, seenFile, now, orgs, filters,
                   stored_hashes, loaded, new_news, idx, articles, dropped,
                   calls, saves, fetchLog, prev, arg, res>>

\* print("No new articles found.")
SkipEmail ==
    /\ pc = "notify"
    /\ ~HasNews(new_news)
    /\ pc' = "save"
    /\ UNCHANGED <<orgsFile, filtersFile, env, seenFile, now, orgs, filters,
                   stored_hashes, loaded, new_news, idx, articles, dropped,
                   calls, sends, saves, fetchLog, prev, arg, res>>

Save ==
    /\ pc = "save"
    /\ seenFile' = save_stored_hashes(stored_hashes)
    /\ saves' = saves + 1
    /\ pc' = "done"
    /\ UNCHANGED <<orgsFile, filtersFile, env, now, orgs, filters,
                   stored_hashes, loaded, new_news, idx, articles, dropped,
                   calls, sends, fetchLog, prev, arg, res>>

\* ------------------------------------------------------- the environment
OrgA == <<"A">>
OrgG == <<"G">>

Lines == {<<"A", "\n">>, <<" ", "G", "\n">>, <<"\n">>}

OrgFiles ==
    {[exists |-> FALSE, content |-> <<>>]}
    \cup {[exists |-> TRUE, content |-> l] : l \in SeqsUpTo(Lines, MaxLines)}

FilterFiles ==
    {[exists |-> FALSE, content |-> EmptyDict],
     [exists |-> TRUE, content |-> [o \in {OrgA} |-> << <<"A">> >>]],
     [exists |-> TRUE,
      content |-> [o \in {OrgA, OrgG} |->
                      IF o = OrgA THEN <<>> ELSE << <<"c">>, <<"b">> >>]]}

EnvFull == [n \in EnvNames |-> <<"x">>]

Environments ==
    {EnvFull}
    \cup {[EnvFull EXCEPT ![n] = v] : n \in EnvNames, v \in {None, <<>>}}

\* what the providers can send back
Recent == <<"iso", 1, 0>>
Old == <<"iso", 0, 0>>
NowMain == HoursPerDay + 6

SerpItems ==
    {[title |-> <<"a">>, link |-> <<"b">>, snippet |-> None, date |-> Recent],
     [title |-> <<"a", "b">>, link |-> None, snippet |-> <<"B">>, date |-> None],
     [title |-> None, link |-> <<"c">>, snippet |-> <<>>, date |-> <<>>],
     [title |-> <<"c">>, link |-> <<"d">>, snippet |-> None, date |-> Old]}

\* the smaller supply of the two-run model
SerpItemsTwice ==
    {[title |-> <<"a">>, link |-> <<"b">>, snippet |-> None, date |-> Recent],
     [title |-> None, link |-> <<"c">>, snippet |-> <<>>, date |-> None],
     [title |-> <<"c">>, link |-> <<"d">>, snippet |-> None, date |-> <<"junk">>]}

GoogleItemsTwice ==
    {[title |-> <<"a">>, link |-> <<"b">>, snippet |-> <<"B">>]}

GoogleItems ==
    {[title |-> <<"a">>, link |-> <<"b">>, snippet |-> <<"B">>],
     [title |-> <<"c">>, link |-> <<"d">>, snippet |-> <<>>]}

SeenFiles ==
    {[exists |-> FALSE, content |-> {}]}
    \cup {[exists |-> TRUE, content |-> K] :
             K \in {{<<"a", "b">>}}}

Responses(items, n) ==
    {[kind |-> k, data |-> <<>>] : k \in {"status", "exc"}}
    \cup {[kind |-> "ok", data |-> d] : d \in SeqsUpTo(items, n)}

\* ------------------------------------------------ one run of main(): Spec
SerpResponses == Responses(SerpItems, MaxFetch)

GoogleResponses == Responses(GoogleItems, MaxFetch)

PrimaryFetch ==
    /\ \E resp \in SerpResponses :
          PrimaryReturns(fetch_news_serpapi(resp, now))
    /\ UNCHANGED fetchLog

FallbackFetch ==
    /\ \E resp \in GoogleResponses :
          FallbackReturns(fetch_news_googleapi(resp, now))
    /\ UNCHANGED fetchLog

NoPrev == [end |-> "none", sends |-> 0]

Init ==
    /\ pc = "start"
    /\ orgsFile \in OrgFiles
    /\ filtersFile \in FilterFiles
    /\ env \in Environments
    /\ seenFile \in SeenFiles
    /\ now = NowMain
    /\ orgs = <<>>
    /\ filters = EmptyDict
    /\ stored_hashes = {}
    /\ loaded = {}
    /\ new_news = EmptyDict
    /\ idx = 0
    /\ articles = <<>>
    /\ dropped = FALSE
    /\ calls = <<>>
    /\ sends = <<>>
    /\ saves = 0
    /\ fetchLog = <<>>
    /\ prev = NoPrev
    /\ arg = <<>>
    /\ res = <<>>

Next ==
    \/ Start
    \/ PrimaryFetch
    \/ FallbackFetch
    \/ ProcessOrg
    \/ SendEmail
    \/ SkipEmail
    \/ Save

Spec == Init /\ [][Next]_vars

\* ----------------------------------- two runs in succession: SpecTwice
\* the first run records what every fetch call returned; the second run,
\* started on the files the first one left, gets the same lists back
SerpResponsesTwice == Responses(SerpItemsTwice, MaxFetch2)

GoogleResponsesTwice == Responses(GoogleItemsTwice, MaxFetch2)

PrimaryFetchFirst ==
    /\ prev.end = "none"
    /\ \E resp \in SerpResponsesTwice :
          LET r == fetch_news_serpapi(resp, now)
          IN PrimaryReturns(r) /\ fetchLog' = Append(fetchLog, r)

FallbackFetchFirst ==
    /\ prev.end = "none"
    /\ \E resp \in GoogleResponsesTwice :
          LET r == fetch_news_googleapi(resp, now)
          IN FallbackReturns(r) /\ fetchLog' = Append(fetchLog, r)

PrimaryFetchAgain ==
    /\ prev.end # "none"
    /\ PrimaryReturns(fetchLog[Len(calls) + 1])
    /\ UNCHANGED fetchLog

FallbackFetchAgain ==
    /\ prev.end # "none"
    /\ FallbackReturns(fetchLog[Len(calls) + 1])
    /\ UNCHANGED fetchLog

\* the process has ended and is invoked again
NextRun ==
    /\ pc \in {"done", "exit", "crashed"}
    /\ prev.end = "none"
    /\ prev' = [end |-> pc, sends |-> Len(sends)]
    /\ pc' = "start"
    /\ orgs' = <<>>
    /\ filters' = EmptyDict
    /\ stored_hashes' = {}
    /\ loaded' = {}
    /\ new_news' = EmptyDict
    /\ idx' = 0
    /\ articles' = <<>>
    /\ dropped' = FALSE
    /\ calls' = <<>>
    /\ sends' = <<>>
    /\ saves' = 0
    /\ UNCHANGED <<orgsFile, filtersFile, env, seenFile, now, fetchLog,
                   arg, res>>

NextTwice ==
    \/ Start
    \/ PrimaryFetchFirst
    \/ FallbackFetchFirst
    \/ PrimaryFetchAgain
    \/ FallbackFetchAgain
    \/ ProcessOrg
    \/ SendEmail
    \/ SkipEmail
    \/ Save
    \/ NextRun

SpecTwice == Init /\ [][NextTwice]_vars

\* ------------------------------------ the recency filter: SpecRecency
HourSamples == {0, 1, 12, 23}

Clocks == {d * HoursPerDay + h : d \in 0..(MaxDay + 1), h \in HourSamples}

DateStrings ==
    {<<"iso", d, h>> : d \in 0..MaxDay, h \in HourSamples}
    \cup {<<"us", d, h, m>> : d \in 0..MaxDay, h \in {12, 1, 11},
                              m \in {"AM", "PM"}}
    \cup {<<f, d>> : f \in {"abbr", "full", "may"}, d \in 0..MaxDay}
    \cup {<<"junk">>, <<>>}

DateSamples ==
    {None, <<>>, <<"junk">>, <<"iso", 0, 1>>, <<"us", 1, 12, "AM">>,
     <<"may", 1>>}

DatedItems ==
    {[title |-> <<"a">>, link |-> <<"b">>, snippet |-> None, date |-> d] :
        d \in DateSamples}

RecencyArgs ==
    {[op |-> "date", date |-> d, resp |-> [kind |-> "ok", data |-> <<>>]] :
        d \in DateStrings}
    \cup {[op |-> o, date |-> None, resp |-> r] :
            o \in {"serp"}, r \in Responses(DatedItems, MaxFetch)}
    \cup {[op |-> o, date |-> None, resp |-> r] :
            o \in {"google"}, r \in Responses(GoogleItems, MaxFetch)}

IdleMain ==
    /\ orgsFile = [exists |-> FALSE, content |-> <<>>]
    /\ filtersFile = [exists |-> FALSE, content |-> EmptyDict]
    /\ env = EnvFull
    /\ seenFile = [exists |-> FALSE, content |-> {}]
    /\ orgs = <<>>
    /\ filters = EmptyDict
    /\ stored_hashes = {}
    /\ loaded = {}
    /\ new_news = EmptyDict
    /\ idx = 0
    /\ articles = <<>>
    /\ dropped = FALSE
    /\ calls = <<>>
    /\ sends = <<>>
    /\ saves = 0
    /\ fetchLog = <<>>
    /\ prev = NoPrev

InitRecency ==
    /\ IdleMain
    /\ pc = "input"
    /\ now \in Clocks
    /\ arg \in RecencyArgs
    /\ res = <<>>

CheckDate ==
    /\ pc = "input"
    /\ arg.op = "date"
    /\ res' = article_within_last_24_hours(arg.date, now)
    /\ pc' = "checked"
    /\ UNCHANGED <<mainVars, now, arg>>

FetchSerp ==
    /\ pc = "input"
    /\ arg.op = "serp"
    /\ res' = fetch_news_serpapi(arg.resp, now)
    /\ pc' = "serp_done"
    /\ UNCHANGED <<mainVars, now, arg>>

FetchGoogle ==
    /\ pc = "input"
    /\ arg.op = "google"
    /\ res' = fetch_news_googleapi(arg.resp, now)
    /\ pc' = "google_done"
    /\ UNCHANGED <<mainVars, now, arg>>

NextRecency ==
    \/ CheckDate
    \/ FetchSerp
    \/ FetchGoogle

SpecRecency == InitRecency /\ [][NextRecency]_vars

\* ---------------------------------- the keyword filter: SpecKeywords
Titles == {None, <<"a">>, <<"A", "b">>}
Snippets == {<<>>, <<"b", "C">>}
Keywords == {<<"a", "b">>, <<"B", " ", "B">>, <<"c">>, <<"A">>}

KwArticles ==
    {[title |-> t, link |-> None, snippet |-> sn, pub_date |-> None] :
        t \in Titles, sn \in Snippets}

InitKeywords ==
    /\ IdleMain
    /\ pc = "input"
    /\ now = NowMain
    /\ arg \in {[arts |-> a, keywords |-> k] :
                   a \in SeqsUpTo(KwArticles, MaxArts),
                   k \in {NoneKw} \cup SeqsUpTo(Keywords, MaxKw)}
    /\ res = <<>>

ApplyKeywordFilter ==
    /\ pc = "input"
    /\ res' = filter_articles_by_keywords(arg.arts, arg.keywords)
    /\ pc' = "filtered"
    /\ UNCHANGED <<mainVars, now, arg>>

NextKeywords == ApplyKeywordFilter

SpecKeywords == InitKeywords /\ [][NextKeywords]_vars

\* =================================================================== claims
\* positions <<org, k>> of the articles of a digest, and their hashes
Entries(news) ==
    UNION {{<<o, k>> : k \in 1..Len(news[o])} : o \in DOMAIN news}

EntryHash(news, e) == news_hash(news[e[1]][e[2]])

DigestSize(news) == Cardinality(Entries(news))

\* C1: every article of the digest has a hash that was not in the seen-set
\* loaded at the start of the run, and no hash occurs twice in the digest,
\* whatever organization the two articles are listed under.
C1_FreshAndUnique ==
    /\ \A e \in Entries(new_news) : EntryHash(new_news, e) \notin loaded
    /\ \A e1, e2 \in Entries(new_news) :
          EntryHash(new_news, e1) = EntryHash(new_news, e2) => e1 = e2

\* a digest of several articles was handed to send_email in a run that
\* discarded an article repeating a hash the loaded seen-set did not hold
C1_Witness ==
    /\ Len(sends) = 1
    /\ dropped
    /\ DigestSize(new_news) > 1

\* C2: when the run has written the seen-set, the number of entries the
\* written seen-set has gained over the loaded one equals the number of
\* articles in the digest of the run.
C2_GrowthEqualsDigest ==
    pc = "done" =>
        Cardinality(seenFile.content) - Cardinality(loaded)
            = DigestSize(new_news)

\* C3: in a run that follows a completed run, on the seen-set that run wrote
\* and with every fetch returning what it returned then, the digest stays
\* empty and no delivery is attempted.
C3_SecondRunEmpty ==
    prev.end = "done" => ~HasNews(new_news) /\ sends = <<>>

\* the first run delivered a digest and the second run has completed
C3_Witness ==
    /\ prev.end = "done"
    /\ prev.sends = 1
    /\ pc = "done"
    /\ \E k \in 1..Len(fetchLog) : fetchLog[k] # <<>>

\* C4: a run that got past the configuration checks and has ended has
\* written the seen-set exactly once, and the written seen-set holds every
\* hash marked during the run.
C4_SavedOnceAtEnd ==
    pc \in {"done", "crashed"} =>
        /\ saves = 1
        /\ seenFile.exists
        /\ stored_hashes \subseteq seenFile.content

\* C5: no step of a run removes a hash from the in-memory seen-set or from
\* the stored one; the in-memory set keeps what was loaded, and the set
\* written at the end holds everything recorded in memory.
C5_NeverCleared ==
    [][/\ stored_hashes \subseteq stored_hashes'
       /\ loaded' \subseteq stored_hashes'
       /\ seenFile.content \subseteq seenFile'.content
       /\ (pc' = "done" => stored_hashes \subseteq seenFile'.content)]_vars

\* a run that loaded a non-empty seen-set, marked more hashes and saved
C5_Witness ==
    /\ pc = "done"
    /\ loaded # {}
    /\ stored_hashes # loaded
    /\ seenFile.content = stored_hashes

\* C6: the fetch calls of a run are, organization by organization in list
\* order, the primary call followed by the fallback call exactly when the
\* primary returned the empty list; a primary response that is not a
\* success (status, exception) gives the empty list.
CalledOrgs == {calls[k].org : k \in 1..Len(calls)}

C6_FetchOrder ==
    /\ \A k \in 1..Len(calls) :
          /\ calls[k].kind = "primary" =>
                /\ calls[k].org = (IF k = 1 THEN 1 ELSE calls[k - 1].org + 1)
                /\ (k > 1 /\ calls[k - 1].kind = "primary")
                      => ~calls[k - 1].empty
                /\ calls[k].empty =>
                      IF k = Len(calls) THEN pc = "fallback"
                      ELSE calls[k + 1].kind = "fallback"
          /\ calls[k].kind = "fallback" =>
                /\ k > 1
                /\ calls[k - 1].kind = "primary"
                /\ calls[k - 1].org = calls[k].org
                /\ calls[k - 1].empty
    /\ \A i \in CalledOrgs :
          Cardinality({k \in 1..Len(calls) : calls[k].org = i}) <= 2
    /\ CalledOrgs = 1..(IF pc \in {"fallback", "process", "crashed"}
                        THEN idx ELSE idx - 1)
    /\ \A k \in {"status", "exc"} :
          fetch_news_serpapi([kind |-> k, data |-> <<>>], now) = <<>>

\* first organization: primary empty, then fallback; second organization:
\* primary non-empty, no fallback
C6_Witness ==
    /\ Len(calls) = 3
    /\ calls[1].kind = "primary"
    /\ calls[1].empty
    /\ calls[2].kind = "fallback"
    /\ calls[3].kind = "primary"
    /\ ~calls[3].empty
    /\ pc \in {"notify", "save", "done"}

\* C7: when orgs.txt is missing or has no non-blank line, or one of the
\* configuration values main() requires is absent, the run makes no fetch
\* call and no delivery.
NoOrganizations ==
    \/ ~orgsFile.exists
    \/ \A k \in 1..Len(orgsFile.content) :
          \A j \in 1..Len(orgsFile.content[k]) :
             IsSpace(orgsFile.content[k][j])

C7_NoNetworkOnBadConfig ==
    (NoOrganizations \/ \E n \in EnvNames : env[n] = None)
        => calls = <<>> /\ sends = <<>>

\* a run with organizations that returned early for an absent value
C7_Witness ==
    /\ pc = "exit"
    /\ orgs # <<>>
    /\ env["GOOGLE_CSE_ID"] = None

\* C8: a run that has ended attempted delivery exactly once if its digest
\* is non-empty and not at all if it is empty.
C8_DeliveryIffDigest ==
    pc \in {"done", "crashed"} =>
        Len(sends) = (IF HasNews(new_news) THEN 1 ELSE 0)

\* C9: the filter accepts a date string that one of the known formats
\* reads exactly when the clock minus the instant it denotes is at most 24
\* hours, rejects a string no format reads; the primary fetcher returns
\* (up to its cap) exactly the items whose date is missing or accepted, and
\* every article of either fetcher has a missing or accepted date.
Hour24(h, m) ==
    IF m = "AM" THEN (IF h = 12 THEN 0 ELSE h)
    ELSE (IF h = 12 THEN 12 ELSE h + 12)

Readable(d) ==
    Len(d) > 0 /\ d[1] \in {"iso", "us", "abbr", "full", "may"}

Instant(d) ==
    CASE d[1] = "iso" -> d[2] * 24 + d[3]
      [] d[1] = "us" -> d[2] * 24 + Hour24(d[3], d[4])
      [] OTHER -> d[2] * 24

Accepted(d) == Readable(d) /\ now - Instant(d) <= 24

PassesRecency(d) == d = None \/ d = <<>> \/ Accepted(d)

C9_RecencyFilter ==
    /\ pc = "checked" => (res <=> Accepted(arg.date))
    /\ pc = "serp_done" =>
          /\ \A k \in 1..Len(res) : PassesRecency(res[k].pub_date)
          /\ Len(res) =
                Min(ResultCap,
                    IF arg.resp.kind = "ok"
                    THEN Cardinality({j \in 1..Len(arg.resp.data) :
                                        PassesRecency(arg.resp.data[j].date)})
                    ELSE 0)
    /\ pc = "google_done" =>
          \A k \in 1..Len(res) : PassesRecency(res[k].pub_date)

\* a date exactly 24 hours before the clock was accepted
C9_Witness ==
    /\ pc = "checked"
    /\ Readable(arg.date)
    /\ now - Instant(arg.date) = 24
    /\ res = TRUE

\* C10 as stated: with a non-empty keyword list, an article is kept exactly
\* when some keyword occurs, ignoring case, in title immediately followed
\* by snippet.
AllTitled(arts) == \A k \in 1..Len(arts) : arts[k].title # None

\* kw occurs in text, ignoring case
Occurs(kw, text) ==
    \E off \in 0..(Len(text) - Len(kw)) :
       \A j \in 1..Len(kw) : LowerChar(kw[j]) = LowerChar(text[off + j])

====
